---- MODULE Spec2Model ----
(***************************************************************************)
(* PostgresMCP (src/main.py): the process-wide connection pool db_pool,    *)
(* get_db_pool, the app_lifespan context manager and the four tools        *)
(* health_check, list_tables, get_table_schema and execute_query.          *)
(*                                                                         *)
(* Coroutines interleave only at an await.  Every action below is the code *)
(* one coroutine runs between two awaits.                                  *)
(*                                                                         *)
(* asyncpg.Pool is a library the program calls; the model takes its        *)
(* documented behaviour: acquire() hands out a free connection or suspends *)
(* while none is free, and raises InterfaceError on a closing or closed    *)
(* pool; leaving "async with db.acquire()" releases the connection;        *)
(* close() waits until every connection is released and returns at once on *)
(* a pool that is already closed.                                          *)
(***************************************************************************)
EXTENDS Integers, Sequences, FiniteSets, TLC

\* ------------------------------------------------------------ bounds
NumLifespans == 2    \* concurrent sessions, each entering app_lifespan
NumHandlers == 2     \* concurrent tool invocations
PoolSize == 1        \* connections of one pool (asyncpg's max_size)

Lifespans == 1..NumLifespans
Handlers == 1..NumHandlers
\* A pool is created only by a caller that read db_pool as None, and the first
\* to succeed sets it for good: no run creates more pools than it has sessions.
PoolIds == 1..NumLifespans
NoPool == 0          \* Python's None, for db_pool and the local db

Tools == {"health_check", "list_tables", "get_table_schema", "execute_query"}

\* What create_pool raises (unreachable host, rejected credentials).
CreateErrors == {"ConnectionRefusedError", "InvalidPasswordError"}
\* What the statement raises.
ExecErrors == {"PostgresError"}
\* What db.acquire() raises when a new connection cannot be opened.
AcquireErrors == {"ConnectionRefusedError"}
PoolClosedError == "InterfaceError"
LookupError == "AttributeError"

\* ------------------------------------------------------------ state
VARIABLES
    db_pool,      \* the global db_pool: NoPool or a pool
    created,      \* pools constructed by asyncpg.create_pool so far
    pool_state,   \* pool -> "none" | "open" | "closing" | "closed"
    avail,        \* pool -> free connections
    pg_tables,    \* the database's tables, as pg_tables yields them
    lpc,          \* lifespan -> "idle" | "creating" | "running" | "closing" | "failed"
    ldb,          \* lifespan -> the local db of app_lifespan
    attempts,     \* lifespan -> create_pool calls of its current get_db_pool call
    lfault,       \* lifespan -> the error create_pool raised in that call
    lraised,      \* lifespan -> the error get_db_pool raised to app_lifespan
    llogged,      \* lifespan -> the errors logger.error wrote in that call
    hpc,          \* handler -> "idle" | "acquire" | "exec" | "done"
    tool,         \* handler -> the tool it runs
    hdb,          \* handler in flight -> its local db
    stmts,        \* handler -> statements it sent to the database
    fault,        \* handler -> the error the pool or the database raised
    outcome,      \* handler -> "none" | "returned" | "raised" | "cancelled"
    raised,       \* handler -> the exception that left the handler
    hlogged,      \* handler -> the errors logger.error wrote
    arg,          \* handler -> its argument: table_name, query, or "" for none
    ret           \* handler -> the value returned

pvars == <<db_pool, created, pool_state, avail, pg_tables>>
lvars == <<lpc, ldb, attempts, lfault, lraised, llogged>>
hvars == <<hpc, tool, hdb, stmts, fault, outcome, raised, hlogged,
           arg, ret>>
vars == <<pvars, lvars, hvars>>

\* ------------------------------------------------------------ the database
\* A name is the sequence of its characters, so that LIKE can read it.
orders == <<"o", "r", "d", "e", "r", "s">>
pg_stat_x == <<"p", "g", "_", "s", "t", "a", "t", "_", "x">>
sql_features == <<"s", "q", "l", "_", "f", "e", "a", "t", "u", "r", "e", "s">>
pgbench == <<"p", "g", "b", "e", "n", "c", "h">>
users == <<"u", "s", "e", "r", "s">>

\* The tables a database may hold, in the order pg_tables yields them.
TableUniverse == <<orders, pg_stat_x, sql_features, pgbench, users>>

\* The subsequence of u at the positions S.
Pick(u, S) ==
    LET F[i \in 0..Len(u)] ==
            IF i = 0 THEN <<>>
            ELSE IF i \in S THEN Append(F[i - 1], u[i]) ELSE F[i - 1]
    IN F[Len(u)]

Catalogs == {Pick(TableUniverse, S) : S \in SUBSET DOMAIN TableUniverse}

\* The two patterns of list_tables' statement.
PatPg == <<"p", "g", "_", "%">>
PatSql == <<"s", "q", "l", "_", "%">>

\* SQL's  s LIKE p : "_" matches any one character, "%" any run of them.
RECURSIVE Like(_, _)
Like(s, p) ==
    IF p = <<>> THEN s = <<>>
    ELSE IF Head(p) = "%"
         THEN Like(s, Tail(p)) \/ (s # <<>> /\ Like(Tail(s), p))
         ELSE /\ s # <<>>
              /\ (Head(p) = "_" \/ Head(p) = Head(s))
              /\ Like(Tail(s), Tail(p))

\* A Record is the sequence of its <<column, value>> pairs.
\* SELECT tablename FROM pg_tables where tablename not like 'pg_%'
\*                                   and tablename not like 'sql_%'
Kept(n) == ~Like(n, PatPg) /\ ~Like(n, PatSql)
TableRow(n) == << <<"tablename", n>> >>
RECURSIVE ListTablesQuery(_)
ListTablesQuery(T) ==
    IF T = <<>> THEN <<>>
    ELSE IF Kept(Head(T))
         THEN <<TableRow(Head(T))>> \o ListTablesQuery(Tail(T))
         ELSE ListTablesQuery(Tail(T))

\* information_schema.columns of a database with one table t(id integer, name text).
Columns == << <<"t", "id", "integer">>, <<"t", "name", "text">> >>
TableNames == {"t", "nosuch"}
ColumnRow(c) == << <<"column_name", c[2]>>, <<"data_type", c[3]>> >>
\* SELECT column_name, data_type FROM information_schema.columns WHERE table_name = $1
RECURSIVE SchemaQuery(_, _)
SchemaQuery(C, table_name) ==
    IF C = <<>> THEN <<>>
    ELSE IF Head(C)[1] = table_name
         THEN <<ColumnRow(Head(C))>> \o SchemaQuery(Tail(C), table_name)
         ELSE SchemaQuery(Tail(C), table_name)

\* The statement a caller hands execute_query, and the Records it yields.
Queries == {"SELECT 1 AS x"}
QueryRows(query) == IF query = "SELECT 1 AS x" THEN << << <<"x", 1>> >> >> ELSE <<>>

\* dict(row): the mapping of a Record's columns to their values (the last
\* of two columns of one name wins).
DictOf(row) ==
    [k \in {row[i][1] : i \in DOMAIN row} |->
        row[CHOOSE i \in DOMAIN row :
                /\ row[i][1] = k
                /\ \A j \in DOMAIN row : row[j][1] = k => j <= i][2]]

\* [dict(row) for row in result]
DictRows(result) == [i \in DOMAIN result |-> DictOf(result[i])]

Args(t) ==
    CASE t = "get_table_schema" -> TableNames
      [] t = "execute_query" -> Queries
      [] OTHER -> {""}

\* What a handler returns.
NoValue == [kind |-> "none"]
Healthy == [kind |-> "dict", val |-> [status |-> "healthy", database |-> "connected"]]
Unavailable == [kind |-> "dict", val |-> [status |-> "error", error |-> "Service unavailable"]]
RowList(rows) == [kind |-> "list", val |-> rows]

\* ------------------------------------------------------------ Init
\* The database of the specification's example.
ExampleTables == <<orders, pg_stat_x, sql_features>>

\* Module load: db_pool = None; no session has started, no tool is running.
Boot ==
    /\ db_pool = NoPool
    /\ created = 0
    /\ pool_state = [p \in PoolIds |-> "none"]
    /\ avail = [p \in PoolIds |-> 0]
    /\ lpc = [l \in Lifespans |-> "idle"]
    /\ ldb = [l \in Lifespans |-> NoPool]
    /\ attempts = [l \in Lifespans |-> 0]
    /\ lfault = [l \in Lifespans |-> "none"]
    /\ lraised = [l \in Lifespans |-> "none"]
    /\ llogged = [l \in Lifespans |-> {}]
    /\ hpc = [h \in Handlers |-> "idle"]
    /\ tool = [h \in Handlers |-> "health_check"]
    /\ hdb = [h \in Handlers |-> NoPool]
    /\ stmts = [h \in Handlers |-> 0]
    /\ fault = [h \in Handlers |-> "none"]
    /\ outcome = [h \in Handlers |-> "none"]
    /\ raised = [h \in Handlers |-> "none"]
    /\ hlogged = [h \in Handlers |-> {}]
    /\ arg = [h \in Handlers |-> ""]
    /\ ret = [h \in Handlers |-> NoValue]

Init == Boot /\ pg_tables = ExampleTables

\* ------------------------------------------------------------ get_db_pool, app_lifespan
\* A session starts: app_lifespan calls get_db_pool, which reads the global.
\* With no pool it calls asyncpg.create_pool and suspends at the await; with
\* one it returns it, and app_lifespan yields AppContext(db=db) at once.
get_db_pool(l) ==
    /\ lpc[l] \in {"idle", "failed"}
    /\ lfault' = [lfault EXCEPT ![l] = "none"]
    /\ lraised' = [lraised EXCEPT ![l] = "none"]
    /\ llogged' = [llogged EXCEPT ![l] = {}]
    /\ IF db_pool = NoPool
       THEN /\ lpc' = [lpc EXCEPT ![l] = "creating"]
            /\ attempts' = [attempts EXCEPT ![l] = 1]
            /\ ldb' = [ldb EXCEPT ![l] = NoPool]
       ELSE /\ lpc' = [lpc EXCEPT ![l] = "running"]
            /\ attempts' = [attempts EXCEPT ![l] = 0]
            /\ ldb' = [ldb EXCEPT ![l] = db_pool]
    /\ UNCHANGED <<pvars, hvars>>

\* create_pool returns a new pool: the global is assigned, get_db_pool
\* returns it and app_lifespan yields.
create_pool_ok(l) ==
    /\ lpc[l] = "creating"
    /\ created' = created + 1
    /\ pool_state' = [pool_state EXCEPT ![created + 1] = "open"]
    /\ avail' = [avail EXCEPT ![created + 1] = PoolSize]
    /\ db_pool' = created + 1
    /\ ldb' = [ldb EXCEPT ![l] = created + 1]
    /\ lpc' = [lpc EXCEPT ![l] = "running"]
    /\ UNCHANGED <<pg_tables, attempts, lfault, lraised, llogged, hvars>>

\* A slip: the global is bound to the pool object before it has connected,
\* and stays bound when connecting fails.
create_pool_fails_bound(l) ==
    /\ lpc[l] = "creating"
    /\ \E e \in CreateErrors :
        /\ lfault' = [lfault EXCEPT ![l] = e]
        /\ llogged' = [llogged EXCEPT ![l] = @ \cup {e}]
        /\ lraised' = [lraised EXCEPT ![l] = e]
    /\ db_pool' = created + 1
    /\ lpc' = [lpc EXCEPT ![l] = "failed"]
    /\ UNCHANGED <<created, pool_state, avail, pg_tables, ldb, attempts, hvars>>

\* create_pool raises: the except branch logs the error and re-raises it;
\* the global is not assigned and app_lifespan never yields.
create_pool_fails(l) ==
    /\ lpc[l] = "creating"
    /\ \E e \in CreateErrors :
        /\ lfault' = [lfault EXCEPT ![l] = e]
        /\ llogged' = [llogged EXCEPT ![l] = @ \cup {e}]
        /\ lraised' = [lraised EXCEPT ![l] = e]
    /\ lpc' = [lpc EXCEPT ![l] = "failed"]
    /\ UNCHANGED <<pvars, ldb, attempts, hvars>>

\* The session ends: the finally branch calls db.close().  On a closed pool
\* close() returns at once; otherwise the pool stops handing out connections
\* and close() waits for the leased ones.
app_lifespan_exit(l) ==
    /\ lpc[l] = "running"
    /\ IF pool_state[ldb[l]] = "closed"
       THEN /\ lpc' = [lpc EXCEPT ![l] = "idle"]
            /\ ldb' = [ldb EXCEPT ![l] = NoPool]
            /\ attempts' = [attempts EXCEPT ![l] = 0]
            /\ UNCHANGED pool_state
       ELSE /\ lpc' = [lpc EXCEPT ![l] = "closing"]
            /\ pool_state' = [pool_state EXCEPT ![ldb[l]] = "closing"]
            /\ UNCHANGED <<ldb, attempts>>
    /\ UNCHANGED <<db_pool, created, avail, pg_tables, lfault, lraised, llogged, hvars>>

\* Every connection is back: close() closes them and returns.
close_done(l) ==
    /\ lpc[l] = "closing"
    /\ avail[ldb[l]] = PoolSize
    /\ pool_state' = [pool_state EXCEPT ![ldb[l]] = "closed"]
    /\ lpc' = [lpc EXCEPT ![l] = "idle"]
    /\ ldb' = [ldb EXCEPT ![l] = NoPool]
    /\ attempts' = [attempts EXCEPT ![l] = 0]
    /\ UNCHANGED <<db_pool, created, avail, pg_tables, lfault, lraised, llogged, hvars>>

\* ------------------------------------------------------------ the tools
\* Leaving "async with db.acquire() as conn": the connection goes back.
Release(p) == [avail EXCEPT ![p] = @ + 1]

\* A slip: every tool catches the exception the way health_check does.
FailsSwallowed(h, e) ==
    /\ fault' = [fault EXCEPT ![h] = e]
    /\ hpc' = [hpc EXCEPT ![h] = "done"]
    /\ hdb' = [hdb EXCEPT ![h] = NoPool]
    /\ hlogged' = [hlogged EXCEPT ![h] = @ \cup {e}]
    /\ outcome' = [outcome EXCEPT ![h] = "returned"]
    /\ ret' = [ret EXCEPT ![h] = Unavailable]
    /\ UNCHANGED raised

\* An exception e reaches the end of handler h's body.  health_check's
\* "except Exception" logs it and returns the fixed mapping; the other three
\* have no handler and e leaves the tool.
Fails(h, e) ==
    /\ fault' = [fault EXCEPT ![h] = e]
    /\ hpc' = [hpc EXCEPT ![h] = "done"]
    /\ hdb' = [hdb EXCEPT ![h] = NoPool]
    /\ IF tool[h] = "health_check"
       THEN /\ hlogged' = [hlogged EXCEPT ![h] = @ \cup {e}]
            /\ outcome' = [outcome EXCEPT ![h] = "returned"]
            /\ ret' = [ret EXCEPT ![h] = Unavailable]
            /\ UNCHANGED raised
       ELSE /\ outcome' = [outcome EXCEPT ![h] = "raised"]
            /\ raised' = [raised EXCEPT ![h] = e]
            /\ UNCHANGED <<hlogged, ret>>

\* The framework calls tool t with argument a in session l.  The first line,
\* db = ctx.request_context.lifespan_context.db, is outside any try; the
\* handler then calls db.acquire() and suspends.
invoke(h, t, a, l) ==
    /\ hpc[h] \in {"idle", "done"}
    /\ lpc[l] = "running"
    /\ hpc' = [hpc EXCEPT ![h] = "acquire"]
    /\ tool' = [tool EXCEPT ![h] = t]
    /\ arg' = [arg EXCEPT ![h] = a]
    /\ hdb' = [hdb EXCEPT ![h] = ldb[l]]
    /\ stmts' = [stmts EXCEPT ![h] = 0]
    /\ fault' = [fault EXCEPT ![h] = "none"]
    /\ outcome' = [outcome EXCEPT ![h] = "none"]
    /\ raised' = [raised EXCEPT ![h] = "none"]
    /\ hlogged' = [hlogged EXCEPT ![h] = {}]
    /\ ret' = [ret EXCEPT ![h] = NoValue]
    /\ UNCHANGED <<pvars, lvars>>

\* The same call when reading the pool off the context raises: the line is
\* before the try of health_check, so the exception leaves every tool.
invoke_lookup_fails(h, t, a, l) ==
    /\ hpc[h] \in {"idle", "done"}
    /\ lpc[l] = "running"
    /\ hpc' = [hpc EXCEPT ![h] = "done"]
    /\ tool' = [tool EXCEPT ![h] = t]
    /\ arg' = [arg EXCEPT ![h] = a]
    /\ hdb' = [hdb EXCEPT ![h] = NoPool]
    /\ stmts' = [stmts EXCEPT ![h] = 0]
    /\ fault' = [fault EXCEPT ![h] = LookupError]
    /\ outcome' = [outcome EXCEPT ![h] = "raised"]
    /\ raised' = [raised EXCEPT ![h] = LookupError]
    /\ hlogged' = [hlogged EXCEPT ![h] = {}]
    /\ ret' = [ret EXCEPT ![h] = NoValue]
    /\ UNCHANGED <<pvars, lvars>>

\* db.acquire() resumes.  A pool that is closing or closed raises
\* InterfaceError; an open pool with a free connection leases it, and the
\* handler sends its statement and suspends on the reply.  With no free
\* connection the handler stays suspended.
acquire(h) ==
    /\ hpc[h] = "acquire"
    /\ IF pool_state[hdb[h]] # "open"
       THEN /\ Fails(h, PoolClosedError)
            /\ UNCHANGED <<avail, stmts>>
       ELSE /\ avail[hdb[h]] > 0
            /\ avail' = [avail EXCEPT ![hdb[h]] = @ - 1]
            /\ hpc' = [hpc EXCEPT ![h] = "exec"]
            /\ stmts' = [stmts EXCEPT ![h] = @ + 1]
            /\ UNCHANGED <<hdb, fault, outcome, raised, hlogged, ret>>
    /\ UNCHANGED <<db_pool, created, pool_state, pg_tables, lvars, tool, arg>>

\* db.acquire() raises: the free connection could not be opened and stays free.
acquire_fails(h) ==
    /\ hpc[h] = "acquire"
    /\ pool_state[hdb[h]] = "open"
    /\ avail[hdb[h]] > 0
    /\ \E e \in AcquireErrors : Fails(h, e)
    /\ UNCHANGED <<pvars, lvars, tool, stmts, arg>>

\* The Records the database sends back for handler h's statement.
Rows(h) ==
    CASE tool[h] = "list_tables" -> ListTablesQuery(pg_tables)
      [] tool[h] = "get_table_schema" -> SchemaQuery(Columns, arg[h])
      [] tool[h] = "execute_query" -> QueryRows(arg[h])
      [] OTHER -> <<>>

\* The statement succeeds: the connection is released on leaving the
\* "async with" and the handler returns.  health_check returns its fixed
\* mapping, the other three the list of dict(row).
execute_ok(h) ==
    /\ hpc[h] = "exec"
    /\ ret' = [ret EXCEPT ![h] =
                 IF tool[h] = "health_check" THEN Healthy
                 ELSE RowList(DictRows(Rows(h)))]
    /\ avail' = Release(hdb[h])
    /\ hpc' = [hpc EXCEPT ![h] = "done"]
    /\ hdb' = [hdb EXCEPT ![h] = NoPool]
    /\ outcome' = [outcome EXCEPT ![h] = "returned"]
    /\ UNCHANGED <<db_pool, created, pool_state, pg_tables, lvars,
                   tool, stmts, fault, raised, hlogged, arg>>

\* The statement raises: the "async with" releases the connection on the
\* way out and the exception reaches the end of the handler's body.
execute_fails(h) ==
    /\ hpc[h] = "exec"
    /\ \E e \in ExecErrors : Fails(h, e)
    /\ avail' = Release(hdb[h])
    /\ UNCHANGED <<db_pool, created, pool_state, pg_tables, lvars, tool, stmts, arg>>

\* A slip: cancellation abandons the lease without returning the connection.
cancel_leaks(h) ==
    /\ hpc[h] \in {"acquire", "exec"}
    /\ hpc' = [hpc EXCEPT ![h] = "done"]
    /\ hdb' = [hdb EXCEPT ![h] = NoPool]
    /\ outcome' = [outcome EXCEPT ![h] = "cancelled"]
    /\ raised' = [raised EXCEPT ![h] = "CancelledError"]
    /\ UNCHANGED <<pvars, lvars, tool, stmts, fault, hlogged, arg, ret>>

\* The framework cancels the handler at its await.  CancelledError is no
\* Exception, so it leaves health_check too; a handler inside its
\* "async with" releases the connection on the way out.
cancel(h) ==
    /\ hpc[h] \in {"acquire", "exec"}
    /\ avail' = IF hpc[h] = "exec" THEN Release(hdb[h]) ELSE avail
    /\ hpc' = [hpc EXCEPT ![h] = "done"]
    /\ hdb' = [hdb EXCEPT ![h] = NoPool]
    /\ outcome' = [outcome EXCEPT ![h] = "cancelled"]
    /\ raised' = [raised EXCEPT ![h] = "CancelledError"]
    /\ UNCHANGED <<db_pool, created, pool_state, pg_tables, lvars,
                   tool, stmts, fault, hlogged, arg, ret>>

\* ------------------------------------------------------------ the program
Next ==
    \/ \E l \in Lifespans : get_db_pool(l)
    \/ \E l \in Lifespans : create_pool_ok(l)
    \/ \E l \in Lifespans : create_pool_fails(l)
    \/ \E l \in Lifespans : app_lifespan_exit(l)
    \/ \E l \in Lifespans : close_done(l)
    \/ \E h \in Handlers, t \in Tools, l \in Lifespans :
           \E a \in Args(t) : invoke(h, t, a, l)
    \/ \E h \in Handlers, t \in Tools, l \in Lifespans :
           \E a \in Args(t) : invoke_lookup_fails(h, t, a, l)
    \/ \E h \in Handlers : acquire(h)
    \/ \E h \in Handlers : acquire_fails(h)
    \/ \E h \in Handlers : execute_ok(h)
    \/ \E h \in Handlers : execute_fails(h)
    \/ \E h \in Handlers : cancel(h)

Spec == Init /\ [][Next]_vars

\* The pool lifecycle manager alone: sessions starting and ending.
NextPool ==
    \/ \E l \in Lifespans : get_db_pool(l)
    \/ \E l \in Lifespans : create_pool_ok(l)
    \/ \E l \in Lifespans : create_pool_fails(l)
    \/ \E l \in Lifespans : app_lifespan_exit(l)
    \/ \E l \in Lifespans : close_done(l)

SpecPool == Init /\ [][NextPool]_vars

\* The tool dispatch layer: every handler, serving the requests of one
\* session that may end and start again.
FirstSession == CHOOSE l \in Lifespans : \A m \in Lifespans : l <= m

NextTools ==
    \/ get_db_pool(FirstSession)
    \/ create_pool_ok(FirstSession)
    \/ create_pool_fails(FirstSession)
    \/ app_lifespan_exit(FirstSession)
    \/ close_done(FirstSession)
    \/ \E h \in Handlers, t \in Tools :
           \E a \in Args(t) : invoke(h, t, a, FirstSession)
    \/ \E h \in Handlers, t \in Tools :
           \E a \in Args(t) : invoke_lookup_fails(h, t, a, FirstSession)
    \/ \E h \in Handlers : acquire(h)
    \/ \E h \in Handlers : acquire_fails(h)
    \/ \E h \in Handlers : execute_ok(h)
    \/ \E h \in Handlers : execute_fails(h)
    \/ \E h \in Handlers : cancel(h)

SpecTools == Init /\ [][NextTools]_vars

\* list_tables over every database drawn from TableUniverse.
InitTables == Boot /\ pg_tables \in Catalogs

NextTables ==
    \/ get_db_pool(FirstSession)
    \/ create_pool_ok(FirstSession)
    \/ \E h \in Handlers : invoke(h, "list_tables", "", FirstSession)
    \/ \E h \in Handlers : acquire(h)
    \/ \E h \in Handlers : execute_ok(h)

SpecTables == InitTables /\ [][NextTables]_vars

\* ------------------------------------------------------------ properties
TypeOK ==
    /\ created \in 0..NumLifespans
    /\ db_pool \in 0..created
    /\ \A p \in PoolIds : avail[p] \in 0..PoolSize

Leased(p) == {h \in Handlers : hpc[h] = "exec" /\ hdb[h] = p}

\* C1: however many callers of get_db_pool run while no pool exists yet,
\* create_pool constructs one pool only, and every caller is handed that pool.
C1_PoolSingleton ==
    /\ created <= 1
    /\ \A l, m \in Lifespans :
          lpc[l] = "running" /\ lpc[m] = "running" => ldb[l] = ldb[m]

\* C2: a handler that has left its body, by return, by an exception or by
\* cancellation, holds no connection: the free connections of every pool and
\* the handlers still inside "async with" add up to the pool's size.
C2_LeaseReturned ==
    \A p \in PoolIds :
        pool_state[p] # "none" => avail[p] + Cardinality(Leased(p)) = PoolSize

\* A handler was cancelled while it held a connection, and the pool is whole.
C2_Witness ==
    \E h \in Handlers :
        /\ hpc[h] = "done" /\ outcome[h] = "cancelled" /\ stmts[h] = 1
        /\ db_pool # NoPool /\ avail[db_pool] = PoolSize

\* C3: health_check never raises: it returns the healthy mapping when nothing
\* failed and the fixed error mapping when anything did.
C3_HealthCheckNeverRaises ==
    \A h \in Handlers :
        tool[h] = "health_check" /\ hpc[h] = "done" /\ outcome[h] # "cancelled" =>
            /\ outcome[h] = "returned"
            /\ ret[h] = IF fault[h] = "none" THEN Healthy ELSE Unavailable

\* C4: one pool is created and it is closed once: no second pool is
\* constructed, and close() is never called on a pool that is already closing
\* or closed.
C4_PoolLifecycle ==
    [][/\ created' <= 1
       /\ \A l \in Lifespans :
             lpc[l] = "running" /\ lpc'[l] # "running" => pool_state[ldb[l]] = "open"]_vars

\* C5: in list_tables, get_table_schema and execute_query a failure leaves the
\* tool as the exception that was raised, with no value returned and no
\* second statement sent; otherwise the tool returns every row of its one
\* statement.
C5_FailurePropagates ==
    \A h \in Handlers :
        /\ stmts[h] <= 1
        /\ tool[h] # "health_check" /\ hpc[h] = "done" /\ outcome[h] # "cancelled" =>
              IF fault[h] # "none"
              THEN outcome[h] = "raised" /\ raised[h] = fault[h] /\ ret[h] = NoValue
              ELSE /\ outcome[h] = "returned" /\ raised[h] = "none" /\ stmts[h] = 1
                   /\ ret[h].kind = "list"
                   /\ Len(ret[h].val) = Len(Rows(h))

\* The statement of one of the three tools failed.
C5_Witness ==
    \E h \in Handlers :
        /\ tool[h] # "health_check" /\ hpc[h] = "done"
        /\ fault[h] \in ExecErrors /\ outcome[h] = "raised" /\ stmts[h] = 1

\* C8: a get_db_pool call whose create_pool fails has logged that error and
\* raised it, after one attempt, and db_pool is bound only to a pool that was
\* constructed: with none constructed it is still None.
C8_CreateFailure ==
    /\ db_pool # NoPool => pool_state[db_pool] # "none"
    /\ created = 0 => db_pool = NoPool
    /\ \A l \in Lifespans :
          /\ lpc[l] = "failed" =>
                /\ lfault[l] \in CreateErrors
                /\ lraised[l] = lfault[l]
                /\ llogged[l] = {lfault[l]}
                /\ attempts[l] = 1
                /\ ldb[l] = NoPool
          /\ lpc[l] = "running" => pool_state[ldb[l]] # "none"

\* A call has failed and the global is unset.
C8_Witness ==
    \E l \in Lifespans : lpc[l] = "failed" /\ db_pool = NoPool /\ created = 0

\* C9: list_tables returns the tables whose names do not start with "pg_" or
\* "sql_", all of them and no others.
StartsWith(s, pre) == Len(s) >= Len(pre) /\ SubSeq(s, 1, Len(pre)) = pre
Reserved(n) ==
    \/ StartsWith(n, <<"p", "g", "_">>)
    \/ StartsWith(n, <<"s", "q", "l", "_">>)
NotReserved(n) == ~Reserved(n)
C9_ListTables ==
    \A h \in Handlers :
        tool[h] = "list_tables" /\ hpc[h] = "done" /\ outcome[h] = "returned" =>
            LET want == SelectSeq(pg_tables, NotReserved)
            IN ret[h].val = [i \in DOMAIN want |-> [tablename |-> want[i]]]

\* C10: every pool get_db_pool hands to app_lifespan is open at that moment.
C10_OpenOnHandOut ==
    [][\A l \in Lifespans :
          lpc[l] # "running" /\ lpc'[l] = "running" => pool_state'[ldb'[l]] = "open"]_vars

====
